---------------------------- MODULE Spec2Model ----------------------------
(***************************************************************************)
(* Lyntin action (trigger) engine, lyntin/modules/action.py, and MSDP       *)
(* support, lyntin/modules/msdp.py.                                        *)
(*                                                                         *)
(* Texts (trigger statements, session variable values, mud lines, glob     *)
(* selectors) are sequences of one-character strings.  Three characters    *)
(* have a meaning to the collaborators of action.py:                       *)
(*   "$"  a reference to the session variable (expand_ses_vars),           *)
(*   "["  the opener r[ of a raw regular expression, "]" its closer        *)
(*        (compile_regexp),                                                *)
(*   "*"  the wildcard of a selector (expand_text),                        *)
(*   "%"  the start of a placement variable %N or %_N (VARREGEXP,          *)
(*        compile_regexp).                                                 *)
(***************************************************************************)
EXTENDS Integers, Sequences, FiniteSets, TLC

\* ------------------------------------------------------------- bounds
\* longest line of mud data handed to checkActions
MaxLineLen == 2

\* ------------------------------------------------------------- domains
Sessions == {"s1", "s2"}

NoSession == "none"

\* values the session variable can be bound to
VarVals == { <<>>, <<"b">>, <<"[">> }

\* the #action commands a user enters: trigger, response, priority, onetime
ActionDefs ==
  { [trigger |-> <<"a">>,      response |-> "r1", priority |-> 3, onetime |-> FALSE],
    [trigger |-> <<"a">>,      response |-> "r2", priority |-> 1, onetime |-> TRUE],
    [trigger |-> <<"$">>,      response |-> "r1", priority |-> 1, onetime |-> TRUE],
    [trigger |-> <<"$">>,      response |-> "r2", priority |-> 3, onetime |-> FALSE],
    [trigger |-> <<"a", "$">>, response |-> "r2", priority |-> 2, onetime |-> FALSE],
    [trigger |-> <<"a", "$">>, response |-> "r1", priority |-> 2, onetime |-> TRUE] }

\* selectors given to removeActions and getInfo
Selectors == { <<>>, <<"*">>, <<"a">>, <<"a", "*">>, <<"$">> }

LineChars == {"a", "b"}

\* lines of mud data
Lines == UNION { [1..n -> LineChars] : n \in 1..MaxLineLen }

\* outcomes of the calls checkActions makes for a matching trigger
Outcomes == {"ok", "submit_raises", "expand_raises"}

\* ------------------------------------------------------------- helpers
\* all enumerations of a finite set without repetition (a dict's key order)
Orders(S) ==
  { f \in [1..Cardinality(S) -> S] : \A i, j \in DOMAIN f : f[i] = f[j] => i = j }

Values(f) == { f[k] : k \in DOMAIN f }

\* a dict without one key
Without(f, k) == [x \in (DOMAIN f) \ {k} |-> f[x]]

\* a dict with f[k] = v
With(f, k, v) == [x \in (DOMAIN f) \cup {k} |-> IF x = k THEN v ELSE f[x]]

EmptyDict == [x \in {} |-> 0]

\* exported.expand_ses_vars: every reference is replaced by the binding
RECURSIVE expand_ses_vars(_, _)
expand_ses_vars(text, binding) ==
  IF text = <<>> THEN <<>>
  ELSE (IF Head(text) = "$" THEN binding ELSE <<Head(text)>>)
       \o expand_ses_vars(Tail(text), binding)

Digits == {"0", "1", "2", "3", "4", "5", "6", "7", "8", "9"}

\* the longest run of digits a text starts with
RECURSIVE DigitRun(_)
DigitRun(text) ==
  IF text = <<>> THEN <<>>
  ELSE IF Head(text) \notin Digits THEN <<>>
  ELSE << Head(text) >> \o DigitRun(Tail(text))

\* a match of the expression %_?(\d+) at the start of a text: its length (0
\* when there is none), the digits of its group, and whether it is %_N
PlaceholderAt(text) ==
  IF text = <<>> THEN [len |-> 0, name |-> <<>>, nonspace |-> FALSE]
  ELSE IF Head(text) # "%" THEN [len |-> 0, name |-> <<>>, nonspace |-> FALSE]
  ELSE LET rest == Tail(text)
           under == IF rest = <<>> THEN FALSE ELSE Head(rest) = "_"
           digits == DigitRun(IF under THEN Tail(rest) ELSE rest)
       IN  IF digits = <<>> THEN [len |-> 0, name |-> <<>>, nonspace |-> FALSE]
           ELSE [len |-> 1 + (IF under THEN 1 ELSE 0) + Len(digits),
                 name |-> digits, nonspace |-> under]

\* the expression utils.compile_regexp builds from a text that is not a raw
\* expression: %N becomes the group (.+?), %_N the group (\S+?), any other
\* character matches itself
RECURSIVE PatternOf(_)
PatternOf(text) ==
  IF text = <<>> THEN <<>>
  ELSE LET p == PlaceholderAt(text)
       IN  IF p.len > 0
           THEN << IF p.nonspace THEN "(\\S+?)" ELSE "(.+?)" >>
                \o PatternOf(SubSeq(text, p.len + 1, Len(text)))
           ELSE << Head(text) >> \o PatternOf(Tail(text))

\* utils.compile_regexp: r[...] is a raw expression, taken as it is, and must
\* be closed; anything else is matched literally but for its placement
\* variables
compile_regexp(text) ==
  IF text # <<>> /\ Head(text) = "["
  THEN IF Len(text) >= 3 /\ text[Len(text)] = "]"
       THEN [err |-> FALSE, compiled |-> [pat |-> SubSeq(text, 2, Len(text) - 1)]]
       ELSE [err |-> TRUE, compiled |-> [pat |-> <<>>]]
  ELSE [err |-> FALSE, compiled |-> [pat |-> PatternOf(text)]]

\* the match of an expression at the start of a text: a group takes the
\* shortest run the rest of the expression can follow
RECURSIVE MatchHere(_, _)
MatchHere(pat, text) ==
  IF pat = <<>> THEN [ok |-> TRUE, groups |-> <<>>]
  ELSE IF Head(pat) \in {"(.+?)", "(\\S+?)"}
  THEN LET after(n) == MatchHere(Tail(pat), SubSeq(text, n + 1, Len(text)))
           fits(n) == /\ Head(pat) = "(\\S+?)" => \A k \in 1..n : text[k] # " "
                      /\ after(n).ok
           runs == { n \in 1..Len(text) : fits(n) }
       IN  IF runs = {} THEN [ok |-> FALSE, groups |-> <<>>]
           ELSE LET n == CHOOSE m \in runs : \A k \in runs : m <= k
                IN  [ok |-> TRUE,
                     groups |-> << SubSeq(text, 1, n) >> \o after(n).groups]
  ELSE IF text = <<>> THEN [ok |-> FALSE, groups |-> <<>>]
  ELSE IF Head(text) # Head(pat) THEN [ok |-> FALSE, groups |-> <<>>]
  ELSE MatchHere(Tail(pat), Tail(text))

\* the places of a line where the expression matches
MatchStarts(compiled, line) ==
  { i \in 1..(Len(line) + 1) :
      MatchHere(compiled.pat, SubSeq(line, i, Len(line))).ok }

\* actioncompiled.search(line)
search(compiled, line) == MatchStarts(compiled, line) # {}

\* match.group(1), match.group(2), ... of the leftmost match
match_groups(compiled, line) ==
  LET starts == MatchStarts(compiled, line)
      i == CHOOSE m \in starts : \A k \in starts : m <= k
  IN  MatchHere(compiled.pat, SubSeq(line, i, Len(line))).groups

\* glob match of a selector against a text
RECURSIVE GlobMatch(_, _)
GlobMatch(sel, text) ==
  IF sel = <<>> THEN text = <<>>
  ELSE IF Head(sel) = "*"
       THEN GlobMatch(Tail(sel), text)
            \/ (text # <<>> /\ GlobMatch(sel, Tail(text)))
       ELSE text # <<>> /\ Head(sel) = Head(text)
            /\ GlobMatch(Tail(sel), Tail(text))

\* utils.expand_text: the members of the list the selector matches; an
\* empty selector matches nothing
expand_text(sel, keys) ==
  IF sel = <<>> THEN {} ELSE { k \in keys : GlobMatch(sel, k) }

\* ------------------------------------------------------------- state
VARIABLES
  actions,     \* ActionManager._actions: session -> ActionData._actions
  sesvars,     \* the binding of the session variable, per session
  pc,          \* "idle", or "check" inside the loop of checkActions
  chkSes,      \* the session of the current / last checkActions pass
  chkText,     \* its line
  actionlist,  \* its sorted snapshot of the store
  idx,         \* the snapshot entry evaluated next
  evaluated,   \* the triggers whose matcher has been run in the pass
  submitted,   \* the calls of exported.lyntin_command made in the pass
  tracebacks,  \* the calls of exported.write_traceback made in the pass
  bound,       \* the varvals built for the matching triggers of the pass
  ret,         \* what the last operation returned or raised
  codec,       \* the last call of encode_msdp / decode_msdp and its result
  handled,     \* the option data handle_telnet_option has been called with
  written,     \* the calls of session._socket.write, in order
  spammed,     \* the msdp_reportable_variables hook spams, in order
  events,      \* the msdp_data events enqueued, in order
  errors,      \* the calls of exported.write_error, in order
  hret,        \* how the last call of handle_telnet_option ended
  managers,    \* the managers of exported.add_manager: name -> manager
  hooktable,   \* the functions registered on each hook, in order
  commandtable, \* the commands of exported.add_command: name -> function
  am,          \* the ActionManager objects load() has made; the last is am
  loaded,      \* the modules that are loaded
  registry,    \* a CommandRegistry
  registered   \* the last CommandRegistry.register: its instance, its calls

enginevars == << actions, sesvars, pc, chkSes, chkText, actionlist, idx,
                 evaluated, submitted, tracebacks, bound, ret >>

msdpvars == << codec, handled, written, spammed, events, errors, hret >>

modvars == << managers, hooktable, commandtable, am, loaded, registry,
              registered >>

vars == << enginevars, msdpvars, modvars >>

Ret(op, ses, arg, err, val) ==
  [op |-> op, ses |-> ses, arg |-> arg, err |-> err, val |-> val]

\* the pass record of an operation other than checkActions, which also
\* leaves the MSDP module alone
NoPass ==
  /\ pc' = "idle"
  /\ chkSes' = NoSession
  /\ chkText' = <<>>
  /\ actionlist' = <<>>
  /\ idx' = 0
  /\ evaluated' = <<>>
  /\ submitted' = <<>>
  /\ tracebacks' = 0
  /\ bound' = <<>>
  /\ UNCHANGED << msdpvars, modvars >>

\* no call of the codec made or about to be made
NoCall ==
  [op |-> "none", given |-> "none", data |-> <<>>, wire |-> <<>>,
   err |-> "none", val |-> <<>>]

\* no option data handled
HandlerInit ==
  /\ handled = <<>>
  /\ written = <<>>
  /\ spammed = <<>>
  /\ events = <<>>
  /\ errors = <<>>
  /\ hret = "none"

\* the manager as load() creates it
ActionInit ==
  /\ actions = EmptyDict
  /\ sesvars = [s \in Sessions |-> <<>>]
  /\ pc = "idle"
  /\ chkSes = NoSession
  /\ chkText = <<>>
  /\ actionlist = <<>>
  /\ idx = 0
  /\ evaluated = <<>>
  /\ submitted = <<>>
  /\ tracebacks = 0
  /\ bound = <<>>
  /\ ret = Ret("init", NoSession, <<>>, FALSE, <<>>)

\* the hooks of the model: the three the action module registers on, and the
\* one of the usage example of CommandRegistry
HookNames ==
  { "mud_filter_hook", "write_hook", "variable_change_hook", "something_parsed" }

\* an object of a class, and None
Obj(class, id) == [class |-> class, id |-> id]

None == Obj("None", 0)

\* CommandRegistry.__init__
NewRegistry ==
  [commands_dict |-> EmptyDict, instance_methods_commands_dict |-> EmptyDict,
   hooks |-> <<>>, instance_hooks |-> <<>>]

NoRegister == [instance |-> None, calls |-> <<>>]

\* no module loaded: no manager, no command, no function on a hook, am = None
ModulesInit ==
  /\ managers = EmptyDict
  /\ hooktable = [name \in HookNames |-> <<>>]
  /\ commandtable = EmptyDict
  /\ am = 0
  /\ loaded = {}
  /\ registry = NewRegistry
  /\ registered = NoRegister

Init == ActionInit /\ codec = NoCall /\ HandlerInit /\ ModulesInit

\* ------------------------------------------------------------- ActionData
\* ActionData.addAction
ActionData_addAction(store, binding, trigger, response, priority, onetime) ==
  LET expanded == expand_ses_vars(trigger, binding)
      expansion == IF expanded = <<>> THEN trigger ELSE expanded
      c == compile_regexp(expansion)
  IN  IF c.err
      THEN [err |-> TRUE, store |-> store]
      ELSE [err |-> FALSE,
            store |-> With(store, trigger,
                           [trigger |-> trigger, compiled |-> c.compiled,
                            response |-> response, priority |-> priority,
                            onetime |-> onetime])]

\* ------------------------------------------------------------- ActionManager
\* ActionManager.addAction
addAction(ses, d) ==
  /\ pc = "idle"
  /\ LET store == IF ses \in DOMAIN actions THEN actions[ses] ELSE EmptyDict
         r == ActionData_addAction(store, sesvars[ses], d.trigger, d.response,
                                   d.priority, d.onetime)
     IN  /\ actions' = With(actions, ses, r.store)
         /\ ret' = Ret("addAction", ses, d.trigger, r.err,
                       IF r.err THEN <<>> ELSE <<1>>)
  /\ NoPass
  /\ UNCHANGED sesvars

\* _recompileRegexps storing the expanded text in place of the trigger text
RECURSIVE recompileStoresExpansion(_, _, _)
recompileStoresExpansion(store, binding, order) ==
  IF order = <<>> THEN [err |-> FALSE, store |-> store]
  ELSE LET e == store[Head(order)]
           expanded == expand_ses_vars(e.trigger, binding)
           expansion == IF expanded = <<>> THEN e.trigger ELSE expanded
           c == compile_regexp(expansion)
       IN  IF c.err
           THEN [err |-> TRUE, store |-> store]
           ELSE recompileStoresExpansion(
                  With(store, Head(order),
                       [trigger |-> expansion, compiled |-> c.compiled,
                        response |-> e.response, priority |-> e.priority,
                        onetime |-> e.onetime]),
                  binding, Tail(order))

\* ActionData._recompileRegexps, over the keys in the order self._actions.keys()
\* gives them; a compile error leaves the loop
RECURSIVE ActionData_recompileRegexps(_, _, _)
ActionData_recompileRegexps(store, binding, order) ==
  IF order = <<>> THEN [err |-> FALSE, store |-> store]
  ELSE LET e == store[Head(order)]
           expanded == expand_ses_vars(e.trigger, binding)
           expansion == IF expanded = <<>> THEN e.trigger ELSE expanded
           c == compile_regexp(expansion)
       IN  IF c.err
           THEN [err |-> TRUE, store |-> store]
           ELSE ActionData_recompileRegexps(
                  With(store, e.trigger,
                       [trigger |-> e.trigger, compiled |-> c.compiled,
                        response |-> e.response, priority |-> e.priority,
                        onetime |-> e.onetime]),
                  binding, Tail(order))

\* removeActions without the del
RECURSIVE removeActionsKeeps(_, _)
removeActionsKeeps(store, badactions) ==
  IF badactions = <<>> THEN [val |-> <<>>, store |-> store]
  ELSE LET mem == Head(badactions)
           pair == << store[mem].trigger, store[mem].response >>
           rest == removeActionsKeeps(store, Tail(badactions))
       IN  [val |-> <<pair>> \o rest.val, store |-> rest.store]

\* ActionData.removeActions, the matching keys taken in the order expand_text
\* returns them
RECURSIVE ActionData_removeActions(_, _)
ActionData_removeActions(store, badactions) ==
  IF badactions = <<>> THEN [val |-> <<>>, store |-> store]
  ELSE LET mem == Head(badactions)
           pair == << store[mem].trigger, store[mem].response >>
           rest == ActionData_removeActions(Without(store, mem), Tail(badactions))
       IN  [val |-> <<pair>> \o rest.val, store |-> rest.store]

\* the order of Python's string comparison on the characters of the model
CharRank(c) ==
  CASE c = " " -> 32 [] c = "$" -> 36 [] c = "%" -> 37 [] c = "*" -> 42
    [] c = "1" -> 49 [] c = "2" -> 50 [] c = "[" -> 91 [] c = "]" -> 93
    [] c = "_" -> 95 [] c = "a" -> 97 [] c = "b" -> 98

RECURSIVE TextLess(_, _)
TextLess(s, t) ==
  IF t = <<>> THEN FALSE
  ELSE IF s = <<>> THEN TRUE
  ELSE IF Head(s) # Head(t) THEN CharRank(Head(s)) < CharRank(Head(t))
  ELSE TextLess(Tail(s), Tail(t))

\* ActionData.getActions: the keys, sorted
ActionData_getActions(store) ==
  CHOOSE listing \in Orders(DOMAIN store) :
    \A i, j \in DOMAIN listing : i < j => TextLess(listing[i], listing[j])

\* ActionData.getStatus: "%d action(s)." % len(self._actions)
ActionData_getStatus(store) == << Cardinality(DOMAIN store), "action(s)." >>

\* ActionData.getCount
ActionData_getCount(store) == Cardinality(DOMAIN store)

\* one line of ActionData.getInfo
InfoLine(e) ==
  [cmd |-> "action", trigger |-> e.trigger, response |-> e.response,
   priority |-> e.priority, onetime |-> e.onetime]

\* ActionData.getInfo, the keys taken in the order of the listing
ActionData_getInfo(store, listing) ==
  IF DOMAIN store = {} THEN <<>>
  ELSE [i \in DOMAIN listing |-> InfoLine(store[listing[i]])]

\* the listings ActionData.getInfo can iterate for a selector
InfoListings(store, text) ==
  IF text = <<>> THEN Orders(DOMAIN store)
  ELSE Orders(expand_text(text, DOMAIN store))

\* clear creating the store of a session that has none, as addAction does
clearCreates(ses) ==
  /\ pc = "idle"
  /\ actions' = With(actions, ses, EmptyDict)
  /\ ret' = Ret("clear", ses, <<>>, FALSE, <<>>)
  /\ NoPass
  /\ UNCHANGED sesvars

\* ActionManager.clear
clear(ses) ==
  /\ pc = "idle"
  /\ actions' = IF ses \in DOMAIN actions
                THEN [actions EXCEPT ![ses] = EmptyDict]
                ELSE actions
  /\ ret' = Ret("clear", ses, <<>>, FALSE, <<>>)
  /\ NoPass
  /\ UNCHANGED sesvars

\* ActionManager.removeActions
removeActions(ses, text) ==
  /\ pc = "idle"
  /\ IF ses \in DOMAIN actions
     THEN \E badactions \in Orders(expand_text(text, DOMAIN actions[ses])) :
            LET r == ActionData_removeActions(actions[ses], badactions)
            IN  /\ actions' = [actions EXCEPT ![ses] = r.store]
                /\ ret' = Ret("removeActions", ses, text, FALSE, r.val)
     ELSE /\ actions' = actions
          /\ ret' = Ret("removeActions", ses, text, FALSE, <<>>)
  /\ NoPass
  /\ UNCHANGED sesvars

\* ActionManager.getActions
getActions(ses) ==
  /\ pc = "idle"
  /\ ret' = Ret("getActions", ses, <<>>, FALSE,
                IF ses \in DOMAIN actions
                THEN ActionData_getActions(actions[ses]) ELSE <<>>)
  /\ NoPass
  /\ UNCHANGED << actions, sesvars >>

\* ActionManager.getInfo
getInfo(ses, text) ==
  /\ pc = "idle"
  /\ IF ses \in DOMAIN actions
     THEN \E listing \in InfoListings(actions[ses], text) :
            ret' = Ret("getInfo", ses, text, FALSE,
                       ActionData_getInfo(actions[ses], listing))
     ELSE ret' = Ret("getInfo", ses, text, FALSE, <<>>)
  /\ NoPass
  /\ UNCHANGED << actions, sesvars >>

\* ActionManager.getStatus
getStatus(ses) ==
  /\ pc = "idle"
  /\ ret' = Ret("getStatus", ses, <<>>, FALSE,
                IF ses \in DOMAIN actions
                THEN ActionData_getStatus(actions[ses])
                ELSE << 0, "action(s)." >>)
  /\ NoPass
  /\ UNCHANGED << actions, sesvars >>

\* ActionManager.removeSession
removeSession(ses) ==
  /\ pc = "idle"
  /\ actions' = IF ses \in DOMAIN actions THEN Without(actions, ses) ELSE actions
  /\ ret' = Ret("removeSession", ses, <<>>, FALSE, <<>>)
  /\ NoPass
  /\ UNCHANGED sesvars

\* ActionManager.variableChange, run by variable_change_hook when the session
\* variable of ses has been set to val
variableChange(ses, val) ==
  /\ pc = "idle"
  /\ sesvars' = [sesvars EXCEPT ![ses] = val]
  /\ IF ses \in DOMAIN actions
     THEN \E order \in Orders(DOMAIN actions[ses]) :
            LET r == ActionData_recompileRegexps(actions[ses], val, order)
            IN  /\ actions' = [actions EXCEPT ![ses] = r.store]
                /\ ret' = Ret("variableChange", ses, val, r.err, <<>>)
     ELSE /\ actions' = actions
          /\ ret' = Ret("variableChange", ses, val, FALSE, <<>>)
  /\ NoPass

\* the replay loop calling addAction without the onetime argument, which then
\* takes its default
RECURSIVE ReplayDropsOnetime(_, _, _, _, _)
ReplayDropsOnetime(dict, newsession, binding, acdata, order) ==
  IF order = <<>> THEN [err |-> FALSE, dict |-> dict]
  ELSE LET mem == Head(order)
           store == IF newsession \in DOMAIN dict
                    THEN dict[newsession] ELSE EmptyDict
           r == ActionData_addAction(store, binding, mem, acdata[mem].response,
                                     acdata[mem].priority, FALSE)
           dict2 == With(dict, newsession, r.store)
       IN  IF r.err THEN [err |-> TRUE, dict |-> dict2]
           ELSE ReplayDropsOnetime(dict2, newsession, binding, acdata, Tail(order))

\* the replay loop of ActionManager.addSession: ActionManager.addAction for
\* every key of the base store; dict is the manager's dictionary
RECURSIVE ReplayActions(_, _, _, _, _)
ReplayActions(dict, newsession, binding, acdata, order) ==
  IF order = <<>> THEN [err |-> FALSE, dict |-> dict]
  ELSE LET mem == Head(order)
           store == IF newsession \in DOMAIN dict
                    THEN dict[newsession] ELSE EmptyDict
           r == ActionData_addAction(store, binding, mem, acdata[mem].response,
                                     acdata[mem].priority, acdata[mem].onetime)
           dict2 == With(dict, newsession, r.store)
       IN  IF r.err THEN [err |-> TRUE, dict |-> dict2]
           ELSE ReplayActions(dict2, newsession, binding, acdata, Tail(order))

\* ActionManager.addSession, for a session that is new to the manager
addSession(newsession, basesession) ==
  /\ pc = "idle"
  /\ newsession # basesession
  /\ newsession \notin DOMAIN actions
  /\ IF basesession \in DOMAIN actions
     THEN \E order \in Orders(DOMAIN actions[basesession]) :
            LET r == ReplayActions(actions, newsession, sesvars[newsession],
                                   actions[basesession], order)
            IN  /\ actions' = r.dict
                /\ ret' = Ret("addSession", newsession, basesession, r.err, <<>>)
     ELSE /\ actions' = actions
          /\ ret' = Ret("addSession", newsession, basesession, FALSE, <<>>)
  /\ NoPass
  /\ UNCHANGED sesvars

\* the snapshot without the sort
UnsortedSnapshots(store) == Orders(Values(store))

\* actionlist = self._actions.values(); actionlist.sort(by priority): the
\* values in the order the dict gives them, stably sorted by priority
SortedSnapshots(store) ==
  { l \in Orders(Values(store)) :
      \A i, j \in DOMAIN l : i < j => l[i].priority <= l[j].priority }

\* ActionManager.checkActions up to the loop of ActionData.checkActions
checkActions(ses, text) ==
  /\ pc = "idle"
  /\ IF ses \in DOMAIN actions
     THEN \E snapshot \in SortedSnapshots(actions[ses]) :
            /\ actionlist' = snapshot
            /\ pc' = IF snapshot = <<>> THEN "idle" ELSE "check"
     ELSE /\ actionlist' = <<>>
          /\ pc' = "idle"
  /\ chkSes' = ses
  /\ chkText' = text
  /\ idx' = 1
  /\ evaluated' = <<>>
  /\ submitted' = <<>>
  /\ tracebacks' = 0
  /\ bound' = <<>>
  /\ ret' = Ret("checkActions", ses, text, FALSE, <<>>)
  /\ UNCHANGED << actions, sesvars >>
  /\ UNCHANGED << msdpvars, modvars >>

\* the store after "if onetime: del self._actions[action]"; deleting a key
\* that is not in the dict raises KeyError
AfterOnetime(store, e) ==
  IF ~e.onetime THEN [err |-> FALSE, store |-> store]
  ELSE IF e.trigger \in DOMAIN store
       THEN [err |-> FALSE, store |-> Without(store, e.trigger)]
       ELSE [err |-> TRUE, store |-> store]

\* get_ordered_vars: VARREGEXP.findall(text), the digits of every %N and %_N
\* of the text, left to right
RECURSIVE get_ordered_vars(_)
get_ordered_vars(text) ==
  IF text = <<>> THEN <<>>
  ELSE LET p == PlaceholderAt(text)
       IN  IF p.len > 0
           THEN << p.name >> \o get_ordered_vars(SubSeq(text, p.len + 1, Len(text)))
           ELSE get_ordered_vars(Tail(text))

\* the loop over actionvars keeping the value a variable already has
RECURSIVE BindKeepsFirst(_, _, _, _)
BindKeepsFirst(varvals, actionvars, groups, i) ==
  IF i > Len(actionvars) THEN [err |-> FALSE, varvals |-> varvals]
  ELSE IF i > Len(groups) THEN [err |-> TRUE, varvals |-> varvals]
  ELSE BindKeepsFirst(IF actionvars[i] \in DOMAIN varvals THEN varvals
                      ELSE With(varvals, actionvars[i], groups[i]),
                      actionvars, groups, i + 1)

\* "for i in xrange(len(actionvars)): varvals[actionvars[i]] =
\* match.group(i+1)", from the i-th variable on; match.group raises IndexError
\* for a group the expression does not have
RECURSIVE BindVars(_, _, _, _)
BindVars(varvals, actionvars, groups, i) ==
  IF i > Len(actionvars) THEN [err |-> FALSE, varvals |-> varvals]
  ELSE IF i > Len(groups) THEN [err |-> TRUE, varvals |-> varvals]
  ELSE BindVars(With(varvals, actionvars[i], groups[i]),
                actionvars, groups, i + 1)

\* the varvals of a matching snapshot entry: the placement variables of the
\* trigger statement, then the special variable a (the lines of the model
\* hold no ";")
Binding(e, line) ==
  LET b == BindVars(EmptyDict, get_ordered_vars(e.trigger),
                    match_groups(e.compiled, line), 1)
  IN  [err |-> b.err, varvals |-> With(b.varvals, <<"a">>, line)]

\* what the command of a response does when exported.lyntin_command runs it
\* before it returns: nothing to the store, #action clear, or #unaction text
NoCommand == [op |-> "none", text |-> <<>>]

Commands ==
  { NoCommand, [op |-> "clear", text |-> <<>>] }
    \cup { [op |-> "removeActions", text |-> text] : text \in Selectors }

\* the live store after the command: ActionData.clear, ActionData.removeActions
RunCommand(store, command) ==
  IF command.op = "clear" THEN EmptyDict
  ELSE IF command.op = "removeActions"
  THEN LET badactions ==
             CHOOSE l \in Orders(expand_text(command.text, DOMAIN store)) : TRUE
       IN  ActionData_removeActions(store, badactions).store
  ELSE store

\* one iteration of the loop of ActionData.checkActions.  The lines of the
\* model hold no ANSI or control codes, so filter_ansi and filter_cm leave them
\* as they are.  For a matching trigger whose variables have been bound,
\* outcome says what the calls made for it do: "expand_raises",
\* utils.expand_vars raises (nothing catches it); "submit_raises",
\* exported.lyntin_command raises inside the try; "ok", both return
checkStepRunning(outcome, command) ==
  /\ pc = "check"
  /\ LET e == actionlist[idx]
         match == search(e.compiled, chkText)
         b == IF match THEN Binding(e, chkText)
              ELSE [err |-> FALSE, varvals |-> EmptyDict]
         expanding == match /\ ~b.err
         fired == expanding /\ outcome # "expand_raises"
         d == IF fired THEN AfterOnetime(RunCommand(actions[chkSes], command), e)
              ELSE [err |-> FALSE, store |-> actions[chkSes]]
         raised == (match /\ b.err)
                   \/ (expanding /\ outcome = "expand_raises")
                   \/ d.err
     IN  /\ expanding \/ outcome = "ok"
         /\ command = NoCommand \/ (fired /\ outcome = "ok")
         /\ evaluated' = Append(evaluated, e.trigger)
         /\ bound' =
              IF expanding
              THEN Append(bound, [trigger |-> e.trigger, varvals |-> b.varvals])
              ELSE bound
         /\ submitted' =
              IF fired
              THEN Append(submitted,
                          [trigger |-> e.trigger, response |-> e.response,
                           priority |-> e.priority,
                           raised |-> (outcome = "submit_raises")])
              ELSE submitted
         /\ tracebacks' =
              IF fired /\ outcome = "submit_raises"
              THEN tracebacks + 1 ELSE tracebacks
         /\ actions' = [actions EXCEPT ![chkSes] = d.store]
         /\ idx' = IF raised THEN idx ELSE idx + 1
         /\ pc' = IF raised \/ idx = Len(actionlist) THEN "idle" ELSE "check"
         /\ ret' = IF raised THEN [ret EXCEPT !.err = TRUE] ELSE ret
  /\ UNCHANGED << sesvars, chkSes, chkText, actionlist >>
  /\ UNCHANGED << msdpvars, modvars >>

\* one round of the loop, the command of the response leaving the store
\* alone or not yet run when checkActions goes on
checkStep(outcome) == checkStepRunning(outcome, NoCommand)

\* the operations on the stores of the sessions S
StoreOps(S, D, V, T) ==
  \/ \E ses \in S, d \in D : addAction(ses, d)
  \/ \E ses \in S : clear(ses)
  \/ \E ses \in S, text \in T : removeActions(ses, text)
  \/ \E ses \in S : getActions(ses)
  \/ \E ses \in S, text \in T : getInfo(ses, text)
  \/ \E ses \in S : getStatus(ses)
  \/ \E ses \in S : removeSession(ses)
  \/ \E ses \in S, val \in V : variableChange(ses, val)

CheckOps(S, L) ==
  \/ \E ses \in S, text \in L : checkActions(ses, text)
  \/ \E outcome \in Outcomes : checkStep(outcome)

\* one session, every input
Next ==
  \/ StoreOps({"s1"}, ActionDefs, VarVals, Selectors)
  \/ CheckOps({"s1"}, Lines)

Spec == Init /\ [][Next]_vars

\* one session, the commands of the responses run by exported.lyntin_command
\* inside the pass
NextCommands ==
  \/ StoreOps({"s1"}, ActionDefs, VarVals, Selectors)
  \/ \E ses \in {"s1"}, text \in Lines : checkActions(ses, text)
  \/ \E outcome \in Outcomes, command \in Commands :
       checkStepRunning(outcome, command)

SpecCommands == Init /\ [][NextCommands]_vars

\* the inputs of the two-session specification
SessionDefs ==
  { [trigger |-> <<"a">>,      response |-> "r1", priority |-> 3, onetime |-> FALSE],
    [trigger |-> <<"$">>,      response |-> "r1", priority |-> 1, onetime |-> TRUE],
    [trigger |-> <<"a", "$">>, response |-> "r2", priority |-> 2, onetime |-> FALSE] }

SessionVarVals == { <<"b">>, <<"[">> }

SessionSelectors == { <<"a", "*">> }

SessionLines == { <<"a", "b">> }

\* two sessions, one derived from the other
NextSessions ==
  \/ StoreOps(Sessions, SessionDefs, SessionVarVals, SessionSelectors)
  \/ CheckOps(Sessions, SessionLines)
  \/ \E newsession \in Sessions, basesession \in Sessions :
       addSession(newsession, basesession)

SpecSessions == Init /\ [][NextSessions]_vars

\* the inputs of the specification of trigger statements with placement
\* variables: "%1 %2", "%1 %1", "%_2a", the raw expression "r[%1]", "$%1"
BindDefs ==
  { [trigger |-> <<"%", "1", " ", "%", "2">>, response |-> "r1",
     priority |-> 1, onetime |-> FALSE],
    [trigger |-> <<"%", "1", " ", "%", "1">>, response |-> "r1",
     priority |-> 2, onetime |-> TRUE],
    [trigger |-> <<"%", "_", "2", "a">>, response |-> "r2",
     priority |-> 3, onetime |-> FALSE],
    [trigger |-> <<"[", "%", "1", "]">>, response |-> "r2",
     priority |-> 4, onetime |-> FALSE],
    [trigger |-> <<"$", "%", "1">>, response |-> "r1",
     priority |-> 5, onetime |-> FALSE] }

BindVarVals == { <<>>, <<"%", "2", " ">> }

BindSelectors == { <<"*">>, <<"%", "*">> }

BindLines == { <<"a", " ", "b">>, <<"b", "a">>, <<"%", "1">> }

\* one session, trigger statements with placement variables
NextBind ==
  \/ StoreOps({"s1"}, BindDefs, BindVarVals, BindSelectors)
  \/ CheckOps({"s1"}, BindLines)

SpecBind == Init /\ [][NextBind]_vars

\* ------------------------------------------------------------- MSDP codec
\* Byte strings are sequences of the numbers of their bytes.  An index i is
\* the index of the source (the first byte has index 0): text[i] of the
\* source is text[i + 1] here, text[a:b] is Slice(text, a, b).
IAC == 255

SB == 250

SE == 240

WILL == 251

DO == 253

MSDP == 69

MSDP_VAR == 1

MSDP_VAL == 2

MSDP_TABLE_OPEN == 3

MSDP_TABLE_CLOSE == 4

MSDP_ARRAY_OPEN == 5

MSDP_ARRAY_CLOSE == 6

\* net.IAC + net.SB + MSDP and net.IAC + net.SE
Prologue == << IAC, SB, MSDP >>

Epilogue == << IAC, SE >>

\* MSDP values: a string, a list of values, a dict from strings to values,
\* and the named tuple MSDPVar; one record shape for all of them
Str(bytes) == [t |-> "str", s |-> bytes, l |-> <<>>, d |-> EmptyDict]

List(items) == [t |-> "list", s |-> <<>>, l |-> items, d |-> EmptyDict]

Dict(entries) == [t |-> "dict", s |-> <<>>, l |-> <<>>, d |-> entries]

MSDPVar(name, value) == [t |-> "var", s |-> name, l |-> << value >>, d |-> EmptyDict]

\* text[a:b]
Slice(text, a, b) == SubSeq(text, a + 1, IF b > Len(text) THEN Len(text) ELSE b)

\* a scalar written as it is
EscapeNothing(text) == text

\* str(data).replace(net.IAC, net.IAC * 2)
RECURSIVE Escape(_)
Escape(text) ==
  IF text = <<>> THEN <<>>
  ELSE (IF Head(text) = IAC THEN << IAC, IAC >> ELSE << Head(text) >>)
       \o Escape(Tail(text))

\* text.replace(net.IAC * 2, net.IAC)
RECURSIVE Unescape(_)
Unescape(text) ==
  IF text = <<>> THEN <<>>
  ELSE IF Len(text) >= 2 /\ text[1] = IAC /\ text[2] = IAC
       THEN << IAC >> \o Unescape(SubSeq(text, 3, Len(text)))
       ELSE << Head(text) >> \o Unescape(Tail(text))

\* encode_msdp gives one byte string for every order in which iteritems()
\* can yield the entries of the dicts of the data: the set of them
RECURSIVE encode_msdp(_, _)
RECURSIVE EncodeEntries(_, _)
RECURSIVE EncodeItems(_, _)

\* the loop over data.iteritems(), the keys coming in the given order
EncodeEntries(entries, order) ==
  IF order = <<>> THEN { <<>> }
  ELSE { << MSDP_VAR >> \o Head(order) \o << MSDP_VAL >> \o e \o rest :
           e \in encode_msdp(entries[Head(order)], FALSE),
           rest \in EncodeEntries(entries, Tail(order)) }

\* the loops over a list: each item encoded after the given marker bytes
EncodeItems(items, marker) ==
  IF items = <<>> THEN { <<>> }
  ELSE { marker \o e \o rest :
           e \in encode_msdp(Head(items), FALSE),
           rest \in EncodeItems(Tail(items), marker) }

encode_msdp(data, toplevel) ==
  IF data.t = "dict"
  THEN { << MSDP_TABLE_OPEN >> \o body \o << MSDP_TABLE_CLOSE >> :
           body \in UNION { EncodeEntries(data.d, order) :
                            order \in Orders(DOMAIN data.d) } }
  ELSE IF data.t = "list" /\ toplevel
  THEN { Prologue \o body \o Epilogue : body \in EncodeItems(data.l, <<>>) }
  ELSE IF data.t = "list"
  THEN { << MSDP_ARRAY_OPEN >> \o body \o << MSDP_ARRAY_CLOSE >> :
           body \in EncodeItems(data.l, << MSDP_VAL >>) }
  ELSE IF data.t = "var"
  THEN { << MSDP_VAR >> \o data.s \o << MSDP_VAL >> \o e :
           e \in encode_msdp(data.l[1], FALSE) }
  ELSE { Escape(data.s) }

\* what a reading function returns (err = "none": the value and the index
\* after it) or raises
Returned(val, i) == [err |-> "none", val |-> val, i |-> i]

Raised(err, i) == [err |-> err, val |-> <<>>, i |-> i]

\* the scan of a scalar in _read_msdp_val: the index at which it stops
RECURSIVE ScalarEnd(_, _)
ScalarEnd(text, i) ==
  IF i >= Len(text) THEN i
  ELSE IF text[i + 1] <= MSDP_ARRAY_CLOSE THEN i
  ELSE IF text[i + 1] = IAC
       THEN IF Len(text) > i + 1 /\ text[i + 2] = IAC
            THEN ScalarEnd(text, i + 2)
            ELSE i
       ELSE ScalarEnd(text, i + 1)

\* "while not text[i] == MSDP_VAL: i += 1" of _read_msdp_table: the index of
\* the next MSDP_VAL, or -1 when the scan runs off the end (IndexError)
RECURSIVE KeyEnd(_, _)
KeyEnd(text, i) ==
  IF i >= Len(text) THEN -1
  ELSE IF text[i + 1] = MSDP_VAL THEN i
  ELSE KeyEnd(text, i + 1)

\* "while i < len(text) and not text[i] == MSDP_VAL: i += 1" of _read_msdp_var
RECURSIVE NameEnd(_, _)
NameEnd(text, i) ==
  IF i >= Len(text) THEN i
  ELSE IF text[i + 1] = MSDP_VAL THEN i
  ELSE NameEnd(text, i + 1)

RECURSIVE read_msdp_val(_, _)
RECURSIVE TableLoop(_, _, _)
RECURSIVE ArrayLoop(_, _, _)

\* the loop of _read_msdp_table, result being the dict built so far
TableLoop(text, i, result) ==
  IF i >= Len(text) THEN Returned(Dict(result), i)
  ELSE IF text[i + 1] = MSDP_TABLE_CLOSE THEN Returned(Dict(result), i)
  ELSE IF text[i + 1] # MSDP_VAR THEN Raised("ValueError", i)
  ELSE LET k == KeyEnd(text, i + 1)
       IN  IF k = -1 THEN Raised("IndexError", Len(text))
           ELSE LET v == read_msdp_val(text, k + 1)
                IN  IF v.err # "none" THEN v
                    ELSE TableLoop(text, v.i,
                                   With(result, Slice(text, i + 1, k), v.val))

\* _read_msdp_table
read_msdp_table(text, i) == TableLoop(text, i, EmptyDict)

\* the loop of _read_msdp_array, result being the list built so far
ArrayLoop(text, i, result) ==
  IF i >= Len(text) THEN Returned(List(result), i)
  ELSE IF text[i + 1] = MSDP_ARRAY_CLOSE THEN Returned(List(result), i)
  ELSE IF text[i + 1] # MSDP_VAL THEN Raised("ValueError", i)
  ELSE LET v == read_msdp_val(text, i + 1)
       IN  IF v.err # "none" THEN v
           ELSE ArrayLoop(text, v.i, Append(result, v.val))

\* _read_msdp_array
read_msdp_array(text, i) == ArrayLoop(text, i, <<>>)

\* _read_msdp_val; text[i] raises IndexError when i is not an index of text
read_msdp_val(text, i) ==
  IF i >= Len(text) THEN Raised("IndexError", i)
  ELSE IF text[i + 1] = MSDP_TABLE_OPEN
  THEN LET r == read_msdp_table(text, i + 1)
       IN  IF r.err # "none" THEN r
           ELSE IF r.i >= Len(text) THEN Raised("ValueError", r.i)
           ELSE IF text[r.i + 1] # MSDP_TABLE_CLOSE THEN Raised("ValueError", r.i)
           ELSE Returned(r.val, r.i + 1)
  ELSE IF text[i + 1] = MSDP_ARRAY_OPEN
  THEN LET r == read_msdp_array(text, i + 1)
       IN  IF r.err # "none" THEN r
           ELSE IF r.i >= Len(text) THEN Raised("ValueError", r.i)
           ELSE IF text[r.i + 1] # MSDP_ARRAY_CLOSE THEN Raised("ValueError", r.i)
           ELSE Returned(r.val, r.i + 1)
  ELSE LET end == ScalarEnd(text, i)
       IN  Returned(Str(Unescape(Slice(text, i, end))), end)

\* _read_msdp_var
read_msdp_var(text, i) ==
  LET end == NameEnd(text, i)
      v == read_msdp_val(text, end + 1)
  IN  IF v.err # "none" THEN v
      ELSE Returned(MSDPVar(Slice(text, i, end), v.val), v.i)

\* the loop of decode_msdp and the test of the epilogue after it
RECURSIVE VarLoop(_, _, _)
VarLoop(text, i, result) ==
  IF i >= Len(text) THEN Raised("IndexError", i)
  ELSE IF text[i + 1] = MSDP_VAR
  THEN LET r == read_msdp_var(text, i + 1)
       IN  IF r.err # "none" THEN r
           ELSE VarLoop(text, r.i, Append(result, r.val))
  ELSE IF Slice(text, i, Len(text)) # Epilogue THEN Raised("ValueError", i)
  ELSE Returned(result, i)

\* decode without the test of the prologue
decodeAnyPrologue(text) == VarLoop(text, 3, <<>>)

\* decode_msdp
decode_msdp(text) ==
  IF Slice(text, 0, 3) # Prologue THEN Raised("ValueError", 0)
  ELSE VarLoop(text, 3, <<>>)

\* ------------------------------------------------------------- codec runs
\* most nodes (strings, lists, dicts) of the values of the data given to
\* encode_msdp
MaxNodes == 3

\* longest run of bytes between the prologue and the end of a received frame
MaxBodyLen == 4

\* strings without marker bytes: empty, plain, and the escape byte
Scalars == { <<>>, << 97 >>, << IAC >> }

Names == { << 97 >>, << IAC >> }

RECURSIVE ValuesOfSize(_)
RECURSIVE ListsOfSize(_)
RECURSIVE DictsOfSize(_, _)

\* the lists whose items have n nodes in all
ListsOfSize(n) ==
  IF n = 0 THEN { <<>> }
  ELSE UNION { LET first == ValuesOfSize(j)
                   others == ListsOfSize(n - j)
               IN  { << v >> \o rest : v \in first, rest \in others } :
               j \in 1..n }

\* the dicts with keys of K whose values have n nodes in all
DictsOfSize(K, n) ==
  IF K = {} THEN IF n = 0 THEN { EmptyDict } ELSE {}
  ELSE LET k == CHOOSE x \in K : TRUE
       IN  DictsOfSize(K \ { k }, n)
             \cup UNION { LET values == ValuesOfSize(j)
                              others == DictsOfSize(K \ { k }, n - j)
                          IN  { With(d, k, v) : v \in values, d \in others } :
                          j \in 1..n }

\* the values of n nodes: a string, or a list or a dict of n - 1 nodes
ValuesOfSize(n) ==
  (IF n = 1 THEN { Str(b) : b \in Scalars } ELSE {})
    \cup { List(l) : l \in ListsOfSize(n - 1) }
    \cup { Dict(d) : d \in DictsOfSize(Names, n - 1) }

\* the lists of MSDPVar items whose values have n nodes in all
RECURSIVE VarsOfSize(_)
VarsOfSize(n) ==
  IF n = 0 THEN { <<>> }
  ELSE UNION { LET values == ValuesOfSize(j)
                   others == VarsOfSize(n - j)
               IN  { << MSDPVar(name, v) >> \o rest :
                       name \in Names, v \in values, rest \in others } :
               j \in 1..n }

\* top-level lists of MSDPVar items whose values have at most n nodes in all
TopLists(n) == { List(l) : l \in UNION { VarsOfSize(j) : j \in 0..n } }

\* dicts of at most n nodes handed to encode_msdp at top level
TopDicts(n) == { Dict(d) : d \in UNION { DictsOfSize(Names, j) : j \in 0..(n - 1) } }

\* the bytes of received option data after the prologue
BodyBytes ==
  { MSDP_VAR, MSDP_VAL, MSDP_TABLE_OPEN, MSDP_TABLE_CLOSE, MSDP_ARRAY_OPEN,
    MSDP_ARRAY_CLOSE, 97, IAC }

Bodies == UNION { [1..n -> BodyBytes] : n \in 0..MaxBodyLen }

\* received byte strings: with the prologue, with and without the epilogue,
\* and without the prologue
Frames ==
  { Prologue \o body \o tail : body \in Bodies, tail \in { <<>>, Epilogue } }
    \cup { <<>>, << IAC >>, << IAC, SB >>, << IAC, SB, 70 >> \o Epilogue,
           << MSDP_VAR, 97, MSDP_VAL, 97 >> \o Epilogue,
           << IAC, WILL, MSDP >> }

\* a call encode_msdp(data) about to be made
InitCodec ==
  /\ ActionInit
  /\ HandlerInit
  /\ ModulesInit
  /\ codec \in { [NoCall EXCEPT !.op = "data", !.given = "data", !.data = data] :
                  data \in TopLists(MaxNodes) \cup TopDicts(MaxNodes) }

\* a call decode_msdp(text) about to be made
InitDecode ==
  /\ ActionInit
  /\ HandlerInit
  /\ ModulesInit
  /\ codec \in { [NoCall EXCEPT !.op = "frame", !.given = "frame", !.wire = text] :
                  text \in Frames }

\* wire = encode_msdp(data)
Encode ==
  /\ codec.op = "data"
  /\ \E wire \in encode_msdp(codec.data, TRUE) :
       codec' = [codec EXCEPT !.op = "encoded", !.wire = wire]
  /\ UNCHANGED << enginevars, handled, written, spammed, events, errors, hret >>
  /\ UNCHANGED modvars

\* decode_msdp(wire), returning val or raising err
Decode ==
  /\ codec.op \in { "encoded", "frame" }
  /\ LET r == decode_msdp(codec.wire)
     IN  codec' = [codec EXCEPT !.op = "decoded", !.err = r.err, !.val = r.val]
  /\ UNCHANGED << enginevars, handled, written, spammed, events, errors, hret >>
  /\ UNCHANGED modvars

NextCodec == Encode \/ Decode

\* decode_msdp(encode_msdp(data))
SpecCodec == InitCodec /\ [][NextCodec]_vars

NextDecode == Decode

\* decode_msdp(text) for received text
SpecDecode == InitDecode /\ [][NextDecode]_vars

\* ------------------------------------------------------------- MSDP handler
\* most calls of handle_telnet_option on one connection
MaxFrames == 4

\* the strings 'LIST', 'COMMANDS', 'REPORT', 'REPORTABLE_VARIABLES' of the
\* source and the variable names 'HP', 'MP' of a server
LIST == << 76, 73, 83, 84 >>

COMMANDS == << 67, 79, 77, 77, 65, 78, 68, 83 >>

REPORT == << 82, 69, 80, 79, 82, 84 >>

REPORTABLE_VARIABLES ==
  << 82, 69, 80, 79, 82, 84, 65, 66, 76, 69, 95, 86, 65, 82, 73, 65, 66, 76, 69, 83 >>

HP == << 72, 80 >>

MP == << 77, 80 >>

\* the one byte string encode_msdp gives for data without dicts
Encoded(data) == CHOOSE wire \in encode_msdp(data, TRUE) : TRUE

\* the request with the value where the name belongs
RequestSwapped(name, value) == Encoded(List(<< MSDPVar(value, Str(name)) >>))

\* encode_msdp([MSDPVar(name, value)])
Request(name, value) == Encoded(List(<< MSDPVar(name, Str(value)) >>))

\* ''.join(encode_msdp([MSDPVar("REPORT", v)]) for v in requested_vars)
RECURSIVE ReportRequests(_)
ReportRequests(requested_vars) ==
  IF requested_vars = <<>> THEN <<>>
  ELSE Request(REPORT, Head(requested_vars)) \o ReportRequests(Tail(requested_vars))

\* a in b for strings
SubstringOf(a, text) ==
  \E i \in 1..(Len(text) - Len(a) + 1) : SubSeq(text, i, i + Len(a) - 1) = a

\* 'REPORT' in var.value: an item of a list, a key of a dict, a part of a
\* string
ReportIn(value) ==
  IF value.t = "list" THEN \E i \in DOMAIN value.l : value.l[i] = Str(REPORT)
  ELSE IF value.t = "dict" THEN REPORT \in DOMAIN value.d
  ELSE SubstringOf(REPORT, value.s)

\* what exported.hook_spam("msdp_reportable_variables", ...) can come to: the
\* hook functions put names into requested_vars, and the spam returns its
\* arguments, or None when a hook function stops it
HookOutcomes ==
  { [stopped |-> FALSE, requested_vars |-> <<>>],
    [stopped |-> FALSE, requested_vars |-> << HP, MP >>],
    [stopped |-> TRUE, requested_vars |-> << HP >>] }

\* the loop over vars that sends a request for every variable, the hook
\* spam stopped or not
RECURSIVE VarsLoopIgnoresStop(_, _, _, _)
VarsLoopIgnoresStop(vars_, hooks, out, sp) ==
  IF vars_ = <<>> THEN [written |-> out, spammed |-> sp]
  ELSE LET var == Head(vars_)
           value == var.l[1]
       IN  IF var.s = COMMANDS
           THEN IF ReportIn(value)
                THEN [written |-> Append(out, Request(LIST, REPORTABLE_VARIABLES)),
                      spammed |-> sp]
                ELSE VarsLoopIgnoresStop(Tail(vars_), hooks, out, sp)
           ELSE IF var.s = REPORTABLE_VARIABLES
           THEN LET hook == Head(hooks)
                    spam == [vars |-> value, requested_vars |-> <<>>,
                             outcome |-> hook]
                IN  VarsLoopIgnoresStop(
                      Tail(vars_), Tail(hooks),
                      IF hook.requested_vars # <<>>
                      THEN Append(out, ReportRequests(hook.requested_vars))
                      ELSE out,
                      Append(sp, spam))
           ELSE VarsLoopIgnoresStop(Tail(vars_), hooks, out, sp)

\* "for var in vars: ..." of handle_telnet_option: the socket writes and the
\* hook spams it adds to out and sp; hooks holds the outcome of each spam
RECURSIVE VarsLoop(_, _, _, _)
VarsLoop(vars_, hooks, out, sp) ==
  IF vars_ = <<>> THEN [written |-> out, spammed |-> sp]
  ELSE LET var == Head(vars_)
           value == var.l[1]
       IN  IF var.s = COMMANDS
           THEN IF ReportIn(value)
                THEN [written |-> Append(out, Request(LIST, REPORTABLE_VARIABLES)),
                      spammed |-> sp]
                ELSE VarsLoop(Tail(vars_), hooks, out, sp)
           ELSE IF var.s = REPORTABLE_VARIABLES
           THEN LET hook == Head(hooks)
                    spam == [vars |-> value, requested_vars |-> <<>>,
                             outcome |-> hook]
                IN  IF hook.stopped
                    THEN [written |-> out, spammed |-> Append(sp, spam)]
                    ELSE VarsLoop(Tail(vars_), Tail(hooks),
                                  IF hook.requested_vars # <<>>
                                  THEN Append(out, ReportRequests(hook.requested_vars))
                                  ELSE out,
                                  Append(sp, spam))
           ELSE VarsLoop(Tail(vars_), hooks, out, sp)

\* the pairs of decoded vars named REPORTABLE_VARIABLES: the most hook spams
\* one call makes
RECURSIVE SpamCount(_)
SpamCount(vars_) ==
  IF vars_ = <<>> THEN 0
  ELSE (IF Head(vars_).s = REPORTABLE_VARIABLES THEN 1 ELSE 0)
       + SpamCount(Tail(vars_))

\* option data the net module hands to the net_handle_telnet_option hook:
\* IAC, a command, an option code and, for SB, what the server sent up to
\* IAC SE
WillMsdp == << IAC, WILL, MSDP >>

WillOther == << IAC, WILL, 70 >>

CommandsFrame ==
  Encoded(List(<< MSDPVar(COMMANDS, List(<< Str(LIST), Str(REPORT) >>)) >>))

CommandsNoReportFrame ==
  Encoded(List(<< MSDPVar(COMMANDS, List(<< Str(LIST) >>)) >>))

DataThenCommandsFrame ==
  Encoded(List(<< MSDPVar(HP, Str(<< 49 >>)),
                  MSDPVar(COMMANDS, List(<< Str(REPORT) >>)) >>))

ReportableFrame ==
  Encoded(List(<< MSDPVar(REPORTABLE_VARIABLES, List(<< Str(HP), Str(MP) >>)) >>))

ReportableTwiceFrame ==
  Encoded(List(<< MSDPVar(REPORTABLE_VARIABLES, List(<< Str(HP) >>)),
                  MSDPVar(REPORTABLE_VARIABLES, List(<< Str(MP) >>)) >>))

DataFrame == Encoded(List(<< MSDPVar(HP, Str(<< 49 >>)) >>))

\* an array item without its VAL marker
BadArrayFrame ==
  Prologue \o << MSDP_VAR >> \o HP \o << MSDP_VAL, MSDP_ARRAY_OPEN, 49 >>
    \o Epilogue

\* a table key without its VAL marker
BadTableFrame ==
  Prologue \o << MSDP_VAR >> \o HP
    \o << MSDP_VAL, MSDP_TABLE_OPEN, MSDP_VAR, 49, MSDP_TABLE_CLOSE >>
    \o Epilogue

OptionData ==
  { WillMsdp, WillOther, CommandsFrame, CommandsNoReportFrame,
    DataThenCommandsFrame, ReportableFrame, ReportableTwiceFrame, DataFrame,
    BadArrayFrame, BadTableFrame }

\* handle_telnet_option(args) with args['data'] = data; hooks holds the
\* outcomes of the hook spams the call makes.  hret says how the call ends:
\* "return", "stop" (raise exported.StopSpammingException) or "IndexError"
handle_telnet_option(data, hooks) ==
  /\ Len(handled) < MaxFrames
  /\ handled' = Append(handled, data)
  /\ IF data[3] # MSDP
     THEN /\ hret' = "return"
          /\ UNCHANGED << written, spammed, events, errors >>
     ELSE IF data[2] = WILL
     THEN /\ written' = written \o << << IAC, DO, MSDP >>, Request(LIST, COMMANDS) >>
          /\ hret' = "stop"
          /\ UNCHANGED << spammed, events, errors >>
     ELSE IF data[2] = SB
     THEN LET r == decode_msdp(data)
          IN  IF r.err = "ValueError"
              THEN /\ errors' = Append(errors, data)
                   /\ hret' = "return"
                   /\ UNCHANGED << written, spammed, events >>
              ELSE IF r.err # "none"
              THEN /\ hret' = r.err
                   /\ UNCHANGED << written, spammed, events, errors >>
              ELSE LET e == VarsLoop(r.val, hooks, written, spammed)
                   IN  /\ written' = e.written
                       /\ spammed' = e.spammed
                       /\ events' = Append(events, r.val)
                       /\ hret' = "stop"
                       /\ UNCHANGED errors
     ELSE /\ hret' = "stop"
          /\ UNCHANGED << written, spammed, events, errors >>
  /\ UNCHANGED << enginevars, codec, modvars >>

\* the outcomes of the hook spams a call with this data can make
HooksFor(data) ==
  LET r == IF data[3] = MSDP /\ data[2] = SB THEN decode_msdp(data)
           ELSE Raised("none", 0)
      n == IF r.err = "none" THEN SpamCount(r.val) ELSE 0
  IN  [1..n -> HookOutcomes]

NextMsdp ==
  \E data \in OptionData : \E hooks \in HooksFor(data) :
     handle_telnet_option(data, hooks)

\* one connection, the option data of the server handled as it arrives
SpecMsdp == Init /\ [][NextMsdp]_vars

\* ------------------------------------------------------------- modules
\* most ActionManager objects made by load() in one run
MaxLoads == 2

\* a plain function, and the method func bound to the object self; two bound
\* methods are equal when func and self are
Fn(func) == [func |-> func, self |-> None]

Method(func, self) == [func |-> func, self |-> self]

\* a hook's register(func, place): func is added to the functions of the hook
hook_register(table, name, func, place) ==
  [table EXCEPT ![name] = Append(@, [func |-> func, place |-> place])]

\* a hook's unregister(func): func is removed; nothing happens if it is not
\* registered
hook_unregister(table, name, func) ==
  LET at == { i \in DOMAIN table[name] : table[name][i].func = func }
      first == CHOOSE i \in at : \A j \in at : i <= j
  IN  IF at = {} THEN table
      ELSE [table EXCEPT
              ![name] = SubSeq(@, 1, first - 1)
                          \o SubSeq(@, first + 1, Len(@))]

\* exported.add_manager(name, mgr)
add_manager(mgrs, name, mgr) == With(mgrs, name, mgr)

\* exported.remove_manager(name)
remove_manager(mgrs, name) ==
  IF name \in DOMAIN mgrs THEN Without(mgrs, name) ELSE mgrs

\* modutils.load_commands: exported.add_command for every entry
load_commands(table, dict) ==
  [cmd \in DOMAIN table \cup DOMAIN dict |->
     IF cmd \in DOMAIN dict THEN dict[cmd] ELSE table[cmd]]

\* modutils.unload_commands: exported.remove_command for every name
unload_commands(table, commands_list) ==
  [cmd \in DOMAIN table \ commands_list |-> table[cmd]]

\* commands_dict of the action module
commands_dict ==
  [cmd \in { "action", "unaction" } |->
     IF cmd = "action" THEN Fn("action_cmd") ELSE Fn("unaction_cmd")]

\* load() of the action module
load ==
  /\ "action" \notin loaded
  /\ am < MaxLoads
  /\ LET mgr == Obj("ActionManager", am + 1)
     IN  /\ commandtable' = load_commands(commandtable, commands_dict)
         /\ am' = am + 1
         /\ managers' = add_manager(managers, "action", mgr)
         /\ hooktable' =
              hook_register(
                hook_register(
                  hook_register(hooktable, "mud_filter_hook",
                                Method("mudfilter", mgr), "75"),
                  "write_hook", Method("persist", mgr), "LAST"),
                "variable_change_hook", Method("variableChange", mgr), "LAST")
  /\ loaded' = loaded \cup { "action" }
  /\ UNCHANGED << registry, registered >>
  /\ UNCHANGED << enginevars, msdpvars >>

\* unload() of the action module
unload ==
  /\ "action" \in loaded
  /\ LET mgr == Obj("ActionManager", am)
     IN  /\ commandtable' = unload_commands(commandtable, DOMAIN commands_dict)
         /\ managers' = remove_manager(managers, "alias")
         /\ hooktable' =
              hook_unregister(
                hook_unregister(
                  hook_unregister(hooktable, "mud_filter_hook",
                                  Method("mudfilter", mgr)),
                  "write_hook", Method("persist", mgr)),
                "variable_change_hook", Method("variableChange", mgr))
  /\ loaded' = loaded \ { "action" }
  /\ UNCHANGED << am, registry, registered >>
  /\ UNCHANGED << enginevars, msdpvars >>

\* the alias module, loaded and unloaded by the user as the action module is:
\* a manager under the name "alias", a command and a function on write_hook
AliasManager == Obj("AliasManager", 1)

alias_load ==
  /\ "alias" \notin loaded
  /\ commandtable' = With(commandtable, "alias", Fn("alias_cmd"))
  /\ managers' = add_manager(managers, "alias", AliasManager)
  /\ hooktable' = hook_register(hooktable, "write_hook",
                                Method("persist", AliasManager), "LAST")
  /\ loaded' = loaded \cup { "alias" }
  /\ UNCHANGED << am, registry, registered >>
  /\ UNCHANGED << enginevars, msdpvars >>

alias_unload ==
  /\ "alias" \in loaded
  /\ commandtable' = unload_commands(commandtable, { "alias" })
  /\ managers' = remove_manager(managers, "alias")
  /\ hooktable' = hook_unregister(hooktable, "write_hook",
                                  Method("persist", AliasManager))
  /\ loaded' = loaded \ { "alias" }
  /\ UNCHANGED << am, registry, registered >>
  /\ UNCHANGED << enginevars, msdpvars >>

\* ------------------------------------------------------------- CommandRegistry
\* most entries of the hooks list of the registry when register is called
MaxHooks == 4

\* the objects given to register(instance)
Instances == { Obj("Plugin", 1), Obj("Plugin", 2) }

\* the functions a module decorates with @registry.hook, @registry.hook_method,
\* @registry.command and @registry.command_method
HookDecls ==
  { [hook_name |-> "something_parsed", func |-> "hook", priority |-> "50"],
    [hook_name |-> "write_hook", func |-> "on_write", priority |-> "LAST"] }

HookMethodDecls ==
  { [hook_name |-> "something_parsed", func |-> "on_parsed", priority |-> "LAST"] }

CommandDecls == { [cmd |-> "test", func |-> "test_cmd"] }

CommandMethodDecls == { [cmd |-> "show", func |-> "show_cmd"] }

\* whether the function has an entry in the list
Declared(list, func) == \E i \in DOMAIN list : list[i].func = func

\* @registry.command(cmd)
CommandRegistry_command(cmd, func) ==
  /\ "plugin" \notin loaded
  /\ cmd \notin DOMAIN registry.commands_dict
  /\ registry' = [registry EXCEPT !.commands_dict = With(@, cmd, Fn(func))]
  /\ UNCHANGED << managers, hooktable, commandtable, am, loaded, registered >>
  /\ UNCHANGED << enginevars, msdpvars >>

\* @registry.command_method(cmd)
CommandRegistry_command_method(cmd, func) ==
  /\ "plugin" \notin loaded
  /\ cmd \notin DOMAIN registry.instance_methods_commands_dict
  /\ registry' =
       [registry EXCEPT !.instance_methods_commands_dict = With(@, cmd, func)]
  /\ UNCHANGED << managers, hooktable, commandtable, am, loaded, registered >>
  /\ UNCHANGED << enginevars, msdpvars >>

\* @registry.hook(hook_name, priority)
CommandRegistry_hook(hook_name, func, priority) ==
  /\ "plugin" \notin loaded
  /\ ~Declared(registry.hooks, Fn(func))
  /\ registry' =
       [registry EXCEPT
          !.hooks = Append(@, [hook_name |-> hook_name, func |-> Fn(func),
                               priority |-> priority])]
  /\ UNCHANGED << managers, hooktable, commandtable, am, loaded, registered >>
  /\ UNCHANGED << enginevars, msdpvars >>

\* @registry.hook_method(hook_name, priority)
CommandRegistry_hook_method(hook_name, func, priority) ==
  /\ "plugin" \notin loaded
  /\ ~Declared(registry.instance_hooks, func)
  /\ registry' =
       [registry EXCEPT
          !.instance_hooks = Append(@, [hook_name |-> hook_name, func |-> func,
                                        priority |-> priority])]
  /\ UNCHANGED << managers, hooktable, commandtable, am, loaded, registered >>
  /\ UNCHANGED << enginevars, msdpvars >>

\* the entries of instance_hooks with types.MethodType(func, instance) for func
BoundHooks(instance_hooks, instance) ==
  [i \in DOMAIN instance_hooks |->
     [instance_hooks[i] EXCEPT !.func = Method(instance_hooks[i].func, instance)]]

\* the entries of instance_methods_commands_dict bound to the instance
BoundCommands(dict, instance) ==
  [cmd \in DOMAIN dict |-> Method(dict[cmd], instance)]

\* exported.hook_register for every entry of the list, in order
RECURSIVE RegisterAll(_, _)
RegisterAll(table, hooks) ==
  IF hooks = <<>> THEN table
  ELSE RegisterAll(hook_register(table, Head(hooks).hook_name, Head(hooks).func,
                                 Head(hooks).priority),
                   Tail(hooks))

\* exported.hook_unregister for every entry of the list, in order
RECURSIVE UnregisterAll(_, _)
UnregisterAll(table, hooks) ==
  IF hooks = <<>> THEN table
  ELSE UnregisterAll(hook_unregister(table, Head(hooks).hook_name,
                                     Head(hooks).func),
                     Tail(hooks))

\* CommandRegistry.register(instance), called by load() of the module
CommandRegistry_register(instance) ==
  /\ "plugin" \notin loaded
  /\ Len(registry.hooks) + Len(registry.instance_hooks) <= MaxHooks
  /\ LET dict == IF instance = None THEN registry.commands_dict
                 ELSE load_commands(
                        registry.commands_dict,
                        BoundCommands(registry.instance_methods_commands_dict,
                                      instance))
         hooks == IF instance = None THEN registry.hooks
                  ELSE registry.hooks
                         \o BoundHooks(registry.instance_hooks, instance)
     IN  /\ registry' = [registry EXCEPT !.commands_dict = dict, !.hooks = hooks]
         /\ commandtable' = load_commands(commandtable, dict)
         /\ hooktable' = RegisterAll(hooktable, hooks)
         /\ registered' = [instance |-> instance, calls |-> hooks]
  /\ loaded' = loaded \cup { "plugin" }
  /\ UNCHANGED << managers, am >>
  /\ UNCHANGED << enginevars, msdpvars >>

\* CommandRegistry.unregister(), called by unload() of the module
CommandRegistry_unregister ==
  /\ "plugin" \in loaded
  /\ commandtable' = unload_commands(commandtable, DOMAIN registry.commands_dict)
  /\ hooktable' = UnregisterAll(hooktable, registry.hooks)
  /\ loaded' = loaded \ { "plugin" }
  /\ UNCHANGED << managers, am, registry, registered >>
  /\ UNCHANGED << enginevars, msdpvars >>

NextModules ==
  \/ load
  \/ unload
  \/ alias_load
  \/ alias_unload
  \/ \E d \in CommandDecls : CommandRegistry_command(d.cmd, d.func)
  \/ \E d \in CommandMethodDecls : CommandRegistry_command_method(d.cmd, d.func)
  \/ \E d \in HookDecls : CommandRegistry_hook(d.hook_name, d.func, d.priority)
  \/ \E d \in HookMethodDecls :
       CommandRegistry_hook_method(d.hook_name, d.func, d.priority)
  \/ \E instance \in Instances \cup { None } : CommandRegistry_register(instance)
  \/ CommandRegistry_unregister

\* the modules of a client loaded and unloaded by the user
SpecModules == Init /\ [][NextModules]_vars

\* ------------------------------------------------------------- claims
\* a checkActions pass has returned or raised
PassOver == pc = "idle" /\ ret.op = "checkActions"

\* the snapshot entries whose matcher finds the line of the pass
Matching == { i \in DOMAIN actionlist : search(actionlist[i].compiled, chkText) }

\* C1: in one checkActions pass the responses are submitted in ascending
\* order of trigger priority: a response of a lower priority number is never
\* submitted after one of a higher priority number.
C1_PriorityOrder ==
  \A i, j \in DOMAIN submitted :
     submitted[i].priority < submitted[j].priority => i < j

\* a pass over a store holding priorities 3, 1 and 2 has submitted all three
C1_Witness ==
  /\ PassOver
  /\ Len(submitted) = 3
  /\ submitted[1].priority = 1
  /\ submitted[2].priority = 2
  /\ submitted[3].priority = 3

\* the text a trigger statement is compiled from under a binding
Expansion(trigger, binding) ==
  IF expand_ses_vars(trigger, binding) = <<>> THEN trigger
  ELSE expand_ses_vars(trigger, binding)

\* the triggers of the matching snapshot entries, in snapshot order
RECURSIVE MatchingTriggers(_)
MatchingTriggers(list) ==
  IF list = <<>> THEN <<>>
  ELSE (IF search(Head(list).compiled, chkText)
        THEN << Head(list).trigger >> ELSE <<>>)
       \o MatchingTriggers(Tail(list))

\* C2: after a checkActions pass every onetime trigger of the pass that
\* matches the line is absent from the store and getCount has dropped by one
\* for each of them, so it cannot fire on a later identical line; a matching
\* trigger that is not onetime is still stored.
C2_OnetimeFiresOnce ==
  (PassOver /\ chkSes \in DOMAIN actions) =>
     LET onetimes == { i \in Matching : actionlist[i].onetime }
         store == actions[chkSes]
     IN  /\ \A i \in onetimes : actionlist[i].trigger \notin DOMAIN store
         /\ ActionData_getCount(store) = Len(actionlist) - Cardinality(onetimes)
         /\ \A i \in Matching \ onetimes : actionlist[i].trigger \in DOMAIN store

\* C3: a checkActions pass runs the matcher of every snapshot entry exactly
\* once, in snapshot order, and every entry that matches the line submits
\* exactly one response, also when onetime triggers are deleted from the live
\* store during the pass.
C3_SnapshotPass ==
  PassOver =>
     /\ evaluated = [i \in DOMAIN actionlist |-> actionlist[i].trigger]
     /\ [i \in DOMAIN submitted |-> submitted[i].trigger]
          = MatchingTriggers(actionlist)

\* C4: a failure of the expansion or of the submission of a matching
\* trigger's response does not make checkActions fail, and every later entry
\* of the snapshot is still evaluated.
C4_FailuresCaught ==
  /\ ret.op = "checkActions" => ~ret.err
  /\ PassOver => Len(evaluated) = Len(actionlist)

\* C5: an addAction that fails to compile leaves the manager's stores exactly
\* as they were: no entry added or changed, and no store created for a
\* session that had none.
C5_FailedAddUnchanged ==
  [][(ret'.op = "addAction" /\ ret'.err) => actions' = actions]_vars

\* C6: a recompile pass does not fail when one trigger does not compile under
\* the new binding, and leaves every trigger that does compile with the
\* matcher of the new binding.
C6_RecompileSkipsFailures ==
  (pc = "idle" /\ ret.op = "variableChange" /\ ret.ses \in DOMAIN actions) =>
     /\ ~ret.err
     /\ \A t \in DOMAIN actions[ret.ses] :
          LET c == compile_regexp(Expansion(t, sesvars[ret.ses]))
          IN  ~c.err => actions[ret.ses][t].compiled = c.compiled

\* C7: a recompile pass that succeeds gives every stored trigger the matcher
\* compiled from its trigger text under the current binding and changes
\* nothing else: the same keys, and under each key the same trigger text
\* (equal to the key), response, priority and onetime flag.
C7_RecompileFrame ==
  [][(ret'.op = "variableChange" /\ ~ret'.err /\ ret'.ses \in DOMAIN actions) =>
       LET s == ret'.ses
       IN  /\ s \in DOMAIN actions'
           /\ DOMAIN actions'[s] = DOMAIN actions[s]
           /\ \A t \in DOMAIN actions[s] :
                /\ actions'[s][t].trigger = t
                /\ actions'[s][t].trigger = actions[s][t].trigger
                /\ actions'[s][t].response = actions[s][t].response
                /\ actions'[s][t].priority = actions[s][t].priority
                /\ actions'[s][t].onetime = actions[s][t].onetime
                /\ actions'[s][t].compiled
                     = compile_regexp(Expansion(t, sesvars'[s])).compiled
    ]_vars

\* the variable was set to "b" and a store of two triggers or more, one of
\* them the variable reference, has been recompiled
C7_Witness ==
  /\ ret.op = "variableChange"
  /\ ~ret.err
  /\ ret.arg = <<"b">>
  /\ ret.ses \in DOMAIN actions
  /\ Cardinality(DOMAIN actions[ret.ses]) >= 2
  /\ <<"$">> \in DOMAIN actions[ret.ses]
  /\ actions[ret.ses][<<"$">>].compiled = [pat |-> <<"b">>]

\* the (trigger, response) pairs of a set of keys of a store
Pairs(store, keys) == { << t, store[t].response >> : t \in keys }

\* C8: removeActions removes exactly the triggers whose text the selector
\* glob-matches, returns exactly their (trigger, response) pairs, each once,
\* and leaves the other triggers as they were; an empty selector removes
\* nothing and returns the empty list.
C8_RemoveExact ==
  [][(ret'.op = "removeActions" /\ ret'.ses \in DOMAIN actions) =>
       LET s == ret'.ses
           sel == ret'.arg
           bad == { t \in DOMAIN actions[s] : sel # <<>> /\ GlobMatch(sel, t) }
       IN  /\ s \in DOMAIN actions'
           /\ DOMAIN actions'[s] = (DOMAIN actions[s]) \ bad
           /\ \A t \in DOMAIN actions'[s] : actions'[s][t] = actions[s][t]
           /\ { ret'.val[i] : i \in DOMAIN ret'.val } = Pairs(actions[s], bad)
           /\ Len(ret'.val) = Cardinality(bad)
           /\ ~ret'.err
    ]_vars

\* removeActions with the selector a* has removed two triggers and left one
C8_Witness ==
  /\ ret.op = "removeActions"
  /\ ret.arg = <<"a", "*">>
  /\ Len(ret.val) = 2
  /\ ret.ses \in DOMAIN actions
  /\ DOMAIN actions[ret.ses] = { <<"$">> }

\* the operations the manager guards with has_key
GuardedOps ==
  { "clear", "removeActions", "getActions", "checkActions", "getInfo",
    "getStatus", "variableChange" }

\* C9: on a session that has no store, clear, removeActions, getActions,
\* checkActions, getInfo, getStatus and the variable-change recompile return
\* without error, create no store, submit no command, and return the empty
\* result ("0 action(s)." for getStatus).
C9_AbsentSessionNoOp ==
  [][(ret'.op \in GuardedOps /\ ret'.ses \notin DOMAIN actions) =>
       /\ ~ret'.err
       /\ actions' = actions
       /\ pc' = "idle"
       /\ submitted' = <<>>
       /\ tracebacks' = 0
       /\ ret'.val = IF ret'.op = "getStatus"
                     THEN << 0, "action(s)." >> ELSE <<>>
    ]_vars

\* checkActions has returned for a session whose store removeSession dropped
C9_Witness ==
  /\ PassOver
  /\ chkSes \in Sessions
  /\ chkSes \notin DOMAIN actions
  /\ sesvars[chkSes] # <<>>

\* whether a session has a store, and the store
StoreOf(dict, s) == IF s \in DOMAIN dict THEN << TRUE, dict[s] >> ELSE << FALSE >>

\* the new session holds every trigger of the base store with the same
\* response, priority and onetime flag
Derived(dict, newsession, acdata) ==
  \A t \in DOMAIN acdata :
     /\ newsession \in DOMAIN dict
     /\ t \in DOMAIN dict[newsession]
     /\ dict[newsession][t].trigger = t
     /\ dict[newsession][t].response = acdata[t].response
     /\ dict[newsession][t].priority = acdata[t].priority
     /\ dict[newsession][t].onetime = acdata[t].onetime

InfoTriggers(val) == [i \in DOMAIN val |-> val[i].trigger]

\* C11: getInfo lists one entry per stored trigger in ascending order of
\* trigger text when no selector is given (so the listing depends on the
\* contents of the store only, not on the order the triggers were added in),
\* and with a selector exactly the triggers whose text it glob-matches.
C11_InfoSorted ==
  (ret.op = "getInfo" /\ ret.ses \in DOMAIN actions) =>
     LET store == actions[ret.ses]
         listed == InfoTriggers(ret.val)
     IN  /\ \A i \in DOMAIN ret.val : ret.val[i] = InfoLine(store[listed[i]])
         /\ IF ret.arg = <<>>
            THEN listed = ActionData_getActions(store)
            ELSE /\ { listed[i] : i \in DOMAIN listed }
                      = { t \in DOMAIN store : GlobMatch(ret.arg, t) }
                 /\ Len(listed) = Cardinality({ listed[i] : i \in DOMAIN listed })

\* the record of the variables bound for a trigger in the current pass
BoundFor(trigger) == { bound[n] : n \in { m \in DOMAIN bound : bound[m].trigger = trigger } }

\* the snapshot entries evaluated so far whose matcher finds the line
MatchedSoFar == { i \in DOMAIN evaluated : search(actionlist[i].compiled, chkText) }

DecodedList ==
  codec.op = "decoded" /\ codec.given = "data" /\ codec.data.t = "list"

\* C13: for every top-level list of name/value pairs whose values are built
\* from scalars, nested lists and mappings (no marker bytes in names, keys and
\* scalars, the escape byte allowed, empty lists and mappings included),
\* decode_msdp(encode_msdp(list)) returns the list, pair for pair in order.
C13_RoundTrip ==
  DecodedList => codec.err = "none" /\ codec.val = codec.data.l

\* the pair named by the escape byte has made the round trip; its value is a
\* list holding a mapping whose one entry is the escape byte
C13_Witness ==
  /\ DecodedList
  /\ codec.err = "none"
  /\ Len(codec.val) = 1
  /\ codec.val[1].s = << IAC >>
  /\ codec.val[1].l[1] =
       List(<< Dict([k \in { << 97 >> } |-> Str(<< IAC >>)]) >>)

\* encode_msdp has been applied to a dict at top level
EncodedDict ==
  codec.op \in { "encoded", "decoded" } /\ codec.given = "data"
  /\ codec.data.t = "dict"

Enveloped(text) ==
  /\ Len(text) >= Len(Prologue) + Len(Epilogue)
  /\ SubSeq(text, 1, Len(Prologue)) = Prologue
  /\ SubSeq(text, Len(text) - Len(Epilogue) + 1, Len(text)) = Epilogue

\* C15: decode_msdp either returns a list of name/value pairs or fails with
\* FormatError (ValueError), its only failure, and it fails with FormatError
\* for every text that lacks the leading prologue or the trailing epilogue.
C15_OnlyFormatError ==
  codec.op = "decoded" =>
     /\ codec.err \in { "none", "ValueError" }
     /\ ~Enveloped(codec.wire) => codec.err = "ValueError"


\* ---- the MSDP handler

\* the option data the last call of handle_telnet_option handled
Front(history) == SubSeq(history, 1, Len(history) - 1)

LastData == handled'[Len(handled')]

Handles == handled' # handled

IsMsdpFrame(data) == data[3] = MSDP /\ data[2] = SB

Decodes(data) == IsMsdpFrame(data) /\ decode_msdp(data).err = "none"

FirstPair(data) == decode_msdp(data).val[1]

HasFirstPair(data, name) ==
  /\ Decodes(data)
  /\ decode_msdp(data).val # <<>>
  /\ FirstPair(data).s = name

\* REPORT is an element of the value of the pair
HasReportElement(var) ==
  /\ var.l[1].t = "list"
  /\ \E i \in DOMAIN var.l[1].l : var.l[1].l[i] = Str(REPORT)

\* the negotiation state of the connection after a history of option data:
\* Idle, then AwaitingCommands from the enable-offer on, AwaitingReportable
\* from the COMMANDS answer with REPORT on, Subscribed from the
\* REPORTABLE_VARIABLES answer on
RECURSIVE StateAfter(_)
StateAfter(history) ==
  IF history = <<>> THEN "Idle"
  ELSE LET before == StateAfter(Front(history))
           data == history[Len(history)]
       IN  IF before = "Idle" /\ data = WillMsdp THEN "AwaitingCommands"
           ELSE IF /\ before = "AwaitingCommands"
                   /\ HasFirstPair(data, COMMANDS)
                   /\ HasReportElement(FirstPair(data))
           THEN "AwaitingReportable"
           ELSE IF /\ before = "AwaitingReportable"
                   /\ HasFirstPair(data, REPORTABLE_VARIABLES)
           THEN "Subscribed"
           ELSE before

\* the writes and the hook spams of the last call
NewWrites == SubSeq(written', Len(written) + 1, Len(written'))

NewSpams == SubSeq(spammed', Len(spammed) + 1, Len(spammed'))

\* C16: an MSDP sub-negotiation frame that fails to decode is reported to the
\* session with write_error and dropped: the call ends without an exception,
\* writes nothing to the socket, spams no msdp_reportable_variables hook and
\* enqueues no msdp_data event
C16_DecodeFailureDropped ==
  [][(Handles /\ IsMsdpFrame(LastData) /\ ~Decodes(LastData))
       => /\ errors' = Append(errors, LastData)
          /\ hret' \in {"return", "stop"}
          /\ written' = written
          /\ spammed' = spammed
          /\ events' = events]_vars

\* C17: the call raises StopSpammingException for every option data whose
\* option code is MSDP, decoded or not, and for any other option code it
\* returns without a write, a hook spam, an event or an error report
C17_StopSignal ==
  [][Handles
       => IF LastData[3] = MSDP THEN hret' = "stop"
          ELSE /\ hret' = "return"
               /\ UNCHANGED << written, spammed, events, errors >>]_vars

\* C18: in Subscribed a frame that decodes is enqueued as one msdp_data event
\* with its decoded pairs and nothing else happens: no socket write and no
\* msdp_reportable_variables hook spam
C18_SubscribedRepublishes ==
  [][(Handles /\ StateAfter(handled) = "Subscribed" /\ Decodes(LastData))
       => /\ events' = Append(events, decode_msdp(LastData).val)
          /\ written' = written
          /\ spammed' = spammed]_vars

\* C19: in AwaitingCommands a frame that decodes writes exactly the request
\* LIST REPORTABLE_VARIABLES when its first pair is COMMANDS with the element
\* REPORT, and writes nothing otherwise
C19_AwaitingCommands ==
  [][(Handles /\ StateAfter(handled) = "AwaitingCommands" /\ Decodes(LastData))
       => IF /\ HasFirstPair(LastData, COMMANDS)
             /\ HasReportElement(FirstPair(LastData))
          THEN written' = Append(written, Request(LIST, REPORTABLE_VARIABLES))
          ELSE written' = written]_vars

\* a socket write that starts with a REPORT request
IsReportWrite(wire) ==
  LET start == Prologue \o << MSDP_VAR >> \o REPORT \o << MSDP_VAL >>
  IN  Len(wire) >= Len(start) /\ SubSeq(wire, 1, Len(start)) = start

ReportWrites == SelectSeq(NewWrites, IsReportWrite)

\* C20 as stated: in AwaitingReportable a frame whose first pair is
\* REPORTABLE_VARIABLES spams the msdp_reportable_variables hook once, with
\* the value of the pair as vars and an empty requested_vars, and writes one
\* REPORT request for each name the hook functions put into requested_vars
C20_OneSpamAllRequested ==
  [][(/\ Handles
      /\ StateAfter(handled) = "AwaitingReportable"
      /\ HasFirstPair(LastData, REPORTABLE_VARIABLES))
       => /\ Len(NewSpams) = 1
          /\ NewSpams[1].vars = FirstPair(LastData).l[1]
          /\ NewSpams[1].requested_vars = <<>>
          /\ ReportWrites =
               IF NewSpams[1].outcome.requested_vars = <<>> THEN <<>>
               ELSE << ReportRequests(NewSpams[1].outcome.requested_vars) >>]_vars

\* the pairs named REPORTABLE_VARIABLES that come before the first COMMANDS
\* pair with REPORT in its value, where the handling of the pairs ends
RECURSIVE SpamsReached(_)
SpamsReached(vars_) ==
  IF vars_ = <<>> THEN 0
  ELSE IF Head(vars_).s = COMMANDS /\ ReportIn(Head(vars_).l[1]) THEN 0
  ELSE (IF Head(vars_).s = REPORTABLE_VARIABLES THEN 1 ELSE 0)
       + SpamsReached(Tail(vars_))

\* C20 amended: the frame spams the hook for its first pair, with the value
\* of the pair as vars and an empty requested_vars, and once more for every
\* further pair of that name it reaches as long as no spam is stopped; the REPORT
\* requests of a spam that is not stopped are written, one for each requested
\* name, and a stopped spam writes none
C20_SpamPerPairUnlessStopped ==
  [][(/\ Handles
      /\ StateAfter(handled) = "AwaitingReportable"
      /\ HasFirstPair(LastData, REPORTABLE_VARIABLES))
       => /\ Len(NewSpams) >= 1
          /\ Len(NewSpams) <= SpamsReached(decode_msdp(LastData).val)
          /\ NewSpams[1].vars = FirstPair(LastData).l[1]
          /\ \A k \in DOMAIN NewSpams :
                /\ NewSpams[k].requested_vars = <<>>
                /\ NewSpams[k].outcome.stopped => k = Len(NewSpams)
          /\ (\A k \in DOMAIN NewSpams : ~NewSpams[k].outcome.stopped)
                => Len(NewSpams) = SpamsReached(decode_msdp(LastData).val)
          /\ ReportWrites =
               SelectSeq([k \in DOMAIN NewSpams |->
                            IF NewSpams[k].outcome.stopped THEN <<>>
                            ELSE ReportRequests(NewSpams[k].outcome.requested_vars)],
                         LAMBDA w : w # <<>>)]_vars

\* the handshake done with the two names requested
C20_Witness ==
  /\ Len(handled) = 3
  /\ StateAfter(Front(handled)) = "AwaitingReportable"
  /\ StateAfter(handled) = "Subscribed"
  /\ handled[3] = ReportableFrame
  /\ Len(spammed) = 1
  /\ ~spammed[1].outcome.stopped
  /\ written[Len(written)] = ReportRequests(<< HP, MP >>)
  /\ hret = "stop"


\* the bytes of the requests of the handshake as they go to the socket
DoMsdp == << IAC, DO, MSDP >>

ListCommands ==
  Prologue \o << MSDP_VAR >> \o LIST \o << MSDP_VAL >> \o COMMANDS \o Epilogue

ListReportable ==
  Prologue \o << MSDP_VAR >> \o LIST \o << MSDP_VAL >> \o REPORTABLE_VARIABLES
    \o Epilogue

\* C21: on WILL MSDP the client writes IAC DO MSDP and then the request
\* LIST COMMANDS, in that order and nothing else: no hook spam, no event, no
\* error report; the connection that was Idle is then in AwaitingCommands
C21_WillAnswered ==
  [][(Handles /\ LastData = WillMsdp)
       => /\ written' = written \o << DoMsdp, ListCommands >>
          /\ UNCHANGED << spammed, events, errors >>
          /\ hret' = "stop"
          /\ StateAfter(handled) = "Idle"
                => StateAfter(handled') = "AwaitingCommands"]_vars

\* the enable-offer has been answered on a fresh connection
C21_Witness ==
  /\ handled = << WillMsdp >>
  /\ written = << DoMsdp, ListCommands >>
  /\ StateAfter(handled) = "AwaitingCommands"
  /\ hret = "stop"

\* C22: in what has been written to the socket, every REPORT request comes
\* after a LIST REPORTABLE_VARIABLES request, and every
\* LIST REPORTABLE_VARIABLES request comes after IAC DO MSDP and the
\* LIST COMMANDS request
C22_HandshakeOrder ==
  \A i \in DOMAIN written :
     /\ IsReportWrite(written[i])
           => \E j \in 1..(i - 1) : written[j] = ListReportable
     /\ written[i] = ListReportable
           => \E j, k \in 1..(i - 1) :
                 j < k /\ written[j] = DoMsdp /\ written[k] = ListCommands


\* ---- commands run inside the pass

\* C23: a round of checkActions that has submitted the response of a matching
\* trigger does not fail, whatever the command of the response has removed
\* from the live store by then, so the pass goes on to the next snapshot entry
C23_PassSurvivesCommand ==
  [][(pc = "check" /\ Len(submitted') = Len(submitted) + 1)
       => /\ ~ret'.err
          /\ evaluated' = Append(evaluated, actionlist[idx].trigger)
          /\ idx' = idx + 1]_vars


\* ---- modules

\* the functions on the hooks that are methods of the object
HookedMethods(table, self) ==
  { << name, i >> \in HookNames \X (1..MaxHooks + MaxLoads + 3) :
      i \in DOMAIN table[name] /\ table[name][i].func.self = self }

\* C24: unload() of the loaded action module leaves no manager under the name
\* "action", no method of the action manager on a hook and none of the
\* commands of commands_dict, and it leaves the manager registered under
\* "alias", the alias command and the functions of other objects on the hooks
\* as they are
C24_UnloadUndoesLoad ==
  [][("action" \in loaded /\ "action" \notin loaded')
       => /\ "action" \notin DOMAIN managers'
          /\ HookedMethods(hooktable', Obj("ActionManager", am)) = {}
          /\ DOMAIN commandtable' \cap DOMAIN commands_dict = {}
          /\ "alias" \in DOMAIN managers
                => "alias" \in DOMAIN managers'
                   /\ managers'["alias"] = managers["alias"]
          /\ "alias" \in DOMAIN commandtable => "alias" \in DOMAIN commandtable'
          /\ HookedMethods(hooktable', AliasManager)
               = HookedMethods(hooktable, AliasManager)]_vars

\* how often the call is among the calls
Count(calls, call) == Cardinality({ i \in DOMAIN calls : calls[i] = call })

\* the entries of the hooks list that hold a bound method
MethodEntries(hooks) == { i \in DOMAIN hooks : hooks[i].func.self # None }

\* C25: while the module of the registry is loaded, the last register has
\* passed every hook declared with @registry.hook, and every hook declared
\* with @registry.hook_method bound to the instance it was given, to
\* exported.hook_register exactly once, and the hooks list of the registry
\* holds no more bound methods than hook methods were declared; when the
\* module is not loaded, no function of the registry is on a hook
C25_RegistersOnce ==
  /\ "plugin" \in loaded =>
        /\ \A i \in DOMAIN registry.hooks :
              registry.hooks[i].func.self = None
                 => Count(registered.calls, registry.hooks[i]) = 1
        /\ registered.instance # None =>
              /\ \A i \in DOMAIN registry.instance_hooks :
                    Cardinality({ k \in DOMAIN registered.calls :
                                    registered.calls[k].func.func
                                      = registry.instance_hooks[i].func }) = 1
              /\ Len(registered.calls)
                   = Len(registry.hooks) - Cardinality(MethodEntries(registry.hooks))
                     + Len(registry.instance_hooks)
        /\ Cardinality(MethodEntries(registry.hooks))
             <= Len(registry.instance_hooks)
  /\ "plugin" \notin loaded =>
        \A name \in HookNames : \A i \in DOMAIN hooktable[name] :
           hooktable[name][i].func.func \notin { "hook", "on_write", "on_parsed" }

=============================================================================
